---- MODULE Spec2Model ----
(***************************************************************************)
(* Model of the Bitbucket search-and-clone pipeline:                       *)
(*   config.ts   getBitbucketAuth / generateTOTP      (Secret Resolver)    *)
(*   scraper     scrape, authenticateWithBitbucket, handleAtlassianLogin,  *)
(*               searchForCodeInBitbucket, scrapeForEachResult,            *)
(*               getGitCloneUrl                (src/lib/logger.ts 235-463) *)
(*   cli         main, cloneRepository, main().catch (src/unnamed/part_000)*)
(*                                                                         *)
(* Strings the code inspects (href, copyable input value, secret input)    *)
(* are sequences of tokens, so that trim / replace / split / toUpperCase   *)
(* are computed and not assumed.  The browser, the vault, the filesystem   *)
(* and the git command are the environment: every answer they give is      *)
(* drawn with \E at the statement that asks for it.                        *)
(***************************************************************************)
EXTENDS Integers, Sequences, FiniteSets, TLC

(***************************************************************************)
(* Bounds of the model.                                                    *)
(***************************************************************************)
\* total number of Result Identifiers the result pages hold in one run
MaxHits == 4
\* number of result pages the site has
MaxPages == 2
\* largest value given to --max-results
MaxCap == 2

(***************************************************************************)
(* Sequence helpers.                                                       *)
(***************************************************************************)
SeqToSet(s) == {s[i] : i \in 1..Len(s)}

Min2(a, b) == IF a < b THEN a ELSE b
Max2(a, b) == IF a > b THEN a ELSE b

NoDup(s) == \A i, j \in 1..Len(s) : i # j => s[i] # s[j]

\* index of the first occurrence of x in s, 0 when absent
RECURSIVE FirstIndexFrom(_, _, _)
FirstIndexFrom(s, x, i) ==
    IF i > Len(s) THEN 0
    ELSE IF s[i] = x THEN i
    ELSE FirstIndexFrom(s, x, i + 1)

FirstIndex(s, x) == FirstIndexFrom(s, x, 1)

(***************************************************************************)
(* String operations of the code, on token sequences.                      *)
(***************************************************************************)
Whitespace == {" "}

\* String.prototype.trim
RECURSIVE TrimLeft(_)
TrimLeft(s) ==
    IF s # <<>> /\ Head(s) \in Whitespace THEN TrimLeft(Tail(s)) ELSE s

RECURSIVE TrimRight(_)
TrimRight(s) ==
    IF s # <<>> /\ s[Len(s)] \in Whitespace
    THEN TrimRight(SubSeq(s, 1, Len(s) - 1))
    ELSE s

Trim(s) == TrimRight(TrimLeft(s))

\* String.prototype.replace(/\s/g, '')
RemoveWhitespace(s) == SelectSeq(s, LAMBDA c : c \notin Whitespace)

\* String.prototype.toUpperCase ("j" is the one lower-case letter modelled)
UpperToken(c) == IF c = "j" THEN "J" ELSE c
ToUpperCase(s) == [i \in 1..Len(s) |-> UpperToken(s[i])]

\* String.prototype.replace(literal, ''): removes the first occurrence only
RemoveFirst(s, tok) ==
    LET i == FirstIndex(s, tok)
    IN  IF i = 0 THEN s
        ELSE SubSeq(s, 1, i - 1) \o SubSeq(s, i + 1, Len(s))

\* String.prototype.split(sep): the pieces between the separators
RECURSIVE SplitFrom(_, _, _)
SplitFrom(s, sep, cur) ==
    IF s = <<>> THEN <<cur>>
    ELSE IF Head(s) = sep THEN <<cur>> \o SplitFrom(Tail(s), sep, <<>>)
    ELSE SplitFrom(Tail(s), sep, Append(cur, Head(s)))

Split(s, sep) == SplitFrom(s, sep, <<>>)

\* Array.prototype.pop on the result of split (never empty)
Pop(parts) == parts[Len(parts)]

\* Array.prototype.slice(0, end), end possibly negative
Slice0(s, end) ==
    LET e == IF end < 0 THEN Max2(Len(s) + end, 0) ELSE Min2(end, Len(s))
    IN  SubSeq(s, 1, e)

(***************************************************************************)
(* Secret Resolver: src/lib/config.ts                                      *)
(***************************************************************************)
\* what read.parse can hand back for a one-time-code seed
RawSecretLower == <<"j", "B", " ">>
RawSecretUpper == <<"J", "B">>
OtpauthUri == <<"otpauth://", "totp/acct", "?secret=", "J", "B", "&", "issuer=x">>
OtpauthNoSecret == <<"otpauth://", "totp/acct", "?", "issuer=x">>
VaultPath == <<"op://", "vault/item/otp">>
OtpauthVaultPath == <<"otpauth://", "totp/acct", "?secret=", "op://", "vault/item/otp">>
BadBase32 == <<"J", "1">>
BlankSecret == <<" ">>
\* a provisioning URI whose secret parameter is resolved and whose issuer
\* parameter still holds a vault path
OtpauthVaultIssuer ==
    <<"otpauth://", "totp/acct", "?secret=", "J", "B", "&", "issuer=", "op://", "vault/item">>

\* a value with a plus sign, raw and as the secret parameter of a URI
RawPlus == <<"J", "+", "B">>
OtpauthPlus == <<"otpauth://", "totp/acct", "?secret=", "J", "+", "B">>

SecretInputs ==
    { <<>>, BlankSecret, RawSecretLower, RawSecretUpper, OtpauthUri,
      OtpauthNoSecret, VaultPath, OtpauthVaultPath, BadBase32,
      OtpauthVaultIssuer, RawPlus, OtpauthPlus }

\* what read.parse can hand back for the identity and the secret
FieldInputs == { <<>>, <<"value">> }

\* the 30-second time steps Date.now() can fall in during one run
TimeSteps == {"t0", "t1"}

\* Date.now() does not go back between two calls
NotBefore(t1, t2) == t1 = "t1" => t2 = "t1"

Base32Alphabet == {"J", "B"}

\* the decoding URLSearchParams applies to a value: a plus sign is a space
FormDecode(value) == [i \in 1..Len(value) |-> IF value[i] = "+" THEN " " ELSE value[i]]

\* everything after "?secret=", the parameters that follow included
SecretParamToEnd(uri) ==
    LET i == FirstIndex(uri, "?secret=")
    IN  IF i = 0 THEN <<>> ELSE FormDecode(SubSeq(uri, i + 1, Len(uri)))

\* url.searchParams.get('secret'): the decoded value of the secret
\* parameter, <<>> (falsy, like null) when the URI has none
SecretParam(uri) ==
    LET i == FirstIndex(uri, "?secret=")
        rest == SubSeq(uri, i + 1, Len(uri))
        j == FirstIndex(rest, "&")
    IN  IF i = 0 THEN <<>>
        ELSE IF j = 0 THEN FormDecode(rest)
        ELSE FormDecode(SubSeq(rest, 1, j - 1))

\* config.ts 124-125: trim, upper-case, drop all whitespace
CleanSecret(secret_string) == RemoveWhitespace(ToUpperCase(Trim(secret_string)))

\* OTPAuth.Secret.fromBase32 rejects a character outside the base32 alphabet
FromBase32Ok(cleanSecret) == \A i \in 1..Len(cleanSecret) : cleanSecret[i] \in Base32Alphabet

\* totp.generate: a function of the decoded secret and the time step only
TotpCode(cleanSecret, t) == [secret |-> cleanSecret, step |-> t]

NoCode == [secret |-> <<>>, step |-> "none"]

\* secret_input.startsWith('otpauth://')
IsOtpauthUri(secret_input) == secret_input # <<>> /\ Head(secret_input) = "otpauth://"

\* config.ts 105-117: secret_string, the secret parameter of a provisioning
\* URI or the input itself
SecretString(secret_input) ==
    IF IsOtpauthUri(secret_input) THEN SecretParam(secret_input) ELSE secret_input

\* generateTOTP without the vault-path guard and with a decoder that takes
\* any character
GenerateTOTPUnguarded(secret_input, t) ==
    LET cleanSecret == CleanSecret(SecretString(secret_input))
    IN  IF cleanSecret = <<>> THEN [ok |-> FALSE, code |-> NoCode]
        ELSE [ok |-> TRUE, code |-> TotpCode(cleanSecret, t)]

\* generateTOTP: [ok |-> FALSE] stands for the rethrown
\* 'Failed to generate TOTP code from secret'
GenerateTOTP(secret_input, t) ==
    LET isUri == IsOtpauthUri(secret_input)
        secretParam == SecretParam(secret_input)
        secret_string == SecretString(secret_input)
        cleanSecret == CleanSecret(secret_string)
    IN  IF isUri /\ secretParam = <<>> THEN [ok |-> FALSE, code |-> NoCode]
        ELSE IF "op://" \in SeqToSet(secret_string) THEN [ok |-> FALSE, code |-> NoCode]
        ELSE IF cleanSecret = <<>> THEN [ok |-> FALSE, code |-> NoCode]
        ELSE IF ~FromBase32Ok(cleanSecret) THEN [ok |-> FALSE, code |-> NoCode]
        ELSE [ok |-> TRUE, code |-> TotpCode(cleanSecret, t)]

\* config.ts 144-146: what the catch of generateTOTP writes to the console
\* besides the error: the input
GenerateTOTPLogs(secret_input, t) ==
    IF GenerateTOTP(secret_input, t).ok THEN {} ELSE {secret_input}

NoConfig ==
    [loaded |-> FALSE, username |-> <<>>, password |-> <<>>,
     bitbucketOtp |-> NoCode, atlassianOtp |-> NoCode]

\* the vault as getBitbucketAuth finds it: is ONEPASSWORD_PREFIX set, and for
\* each field whether read.parse throws, and what it returns otherwise
VaultStates ==
    [prefix : BOOLEAN,
     readFails : {"", "username", "password", "otp", "one-time password"},
     username : FieldInputs, password : FieldInputs,
     otp : SecretInputs, atlassian : SecretInputs]

GetBitbucketAuthNoRequiredCheck(v, t1, t2) ==
    LET b == GenerateTOTP(v.otp, t1)
        a == GenerateTOTP(v.atlassian, t2)
    IN  IF ~v.prefix THEN [ok |-> FALSE, error |-> "prefix", config |-> NoConfig]
        ELSE IF v.readFails # "" THEN [ok |-> FALSE, error |-> "read", config |-> NoConfig]
        ELSE IF ~b.ok \/ ~a.ok THEN [ok |-> FALSE, error |-> "totp", config |-> NoConfig]
        ELSE [ok |-> TRUE, error |-> "",
              config |-> [loaded |-> TRUE, username |-> v.username,
                          password |-> v.password,
                          bitbucketOtp |-> b.code, atlassianOtp |-> a.code]]

\* getBitbucketAuth: the Credential Bundle, or the error it throws
GetBitbucketAuth(v, t1, t2) ==
    LET b == GenerateTOTP(v.otp, t1)
        a == GenerateTOTP(v.atlassian, t2)
    IN  IF ~v.prefix THEN [ok |-> FALSE, error |-> "prefix", config |-> NoConfig]
        ELSE IF v.readFails # "" THEN [ok |-> FALSE, error |-> "read", config |-> NoConfig]
        ELSE IF ~b.ok \/ ~a.ok THEN [ok |-> FALSE, error |-> "totp", config |-> NoConfig]
        ELSE IF v.username = <<>> \/ v.password = <<>>
        THEN [ok |-> FALSE, error |-> "required", config |-> NoConfig]
        ELSE [ok |-> TRUE, error |-> "",
              config |-> [loaded |-> TRUE, username |-> v.username,
                          password |-> v.password,
                          bitbucketOtp |-> b.code, atlassianOtp |-> a.code]]

\* what getBitbucketAuth leaves on the console: the input of the call of
\* generateTOTP that threw (line 60 throws before line 61 is reached)
GetBitbucketAuthLogs(v, t1, t2) ==
    IF ~v.prefix \/ v.readFails # "" THEN {}
    ELSE IF ~GenerateTOTP(v.otp, t1).ok THEN GenerateTOTPLogs(v.otp, t1)
    ELSE GenerateTOTPLogs(v.atlassian, t2)

(***************************************************************************)
(* State.                                                                  *)
(***************************************************************************)
VARIABLES
    argv,            \* the options main branches on: maxResults, branch, dryRun
    pc,              \* position of the single thread of control
    exitCode,        \* "running", 0 or 1 once the process has ended
    fatalError,      \* what main().catch received, "" if nothing
    entryPoint,      \* the script that runs: "cli" (part_000) or "index"
                     \* (index.ts)
    vaultFault,      \* history: what was wrong with the vault, "" if nothing
    vault,           \* history: what getBitbucketAuth read and when, until the
                     \* browser is launched
    consoleLog,      \* history: the inputs generateTOTP wrote to the console
    config,          \* the Credential Bundle of scrape
    browser,         \* "none", "open", "closed": the Session
    pageKind,        \* what the page shows (environment)
    loginStep,       \* next step of handleAtlassianLogin
    authFailed,      \* history: authentication failed (control missing, or
                     \* credentials / one-time codes not accepted)
    scrapeError,     \* what scrape's catch received, "" if nothing
    searchTriggered, \* a search suggestion was activated
    searchSaw,       \* history: the suggestions the search dropdown held
    resolveLog,      \* history: the identifiers getGitCloneUrl was called
                     \* with, and what its last call did
    authLog,         \* history: the statements of the authentication that
                     \* completed, until the target address is opened
    currentPage,     \* scrapeForEachResult: currentPage
    hits,            \* scrapeForEachResult: results
    seen,            \* history: the identifiers on the pages, in page order
    extractions,     \* history: header-group extractions performed
    nextClicks,      \* history: activations of Next
    nexts,           \* history: the state of Next on each page inspected
    loopDone,        \* history: the pagination loop ended by hasNextPage = false
    searchResultSet, \* scrape: searchResultSet, in insertion order
    urls,            \* scrape: results
    shown,           \* history: the address each resolved hit's page showed
    results,         \* main: results
    repositoriesToClone, \* main: repositoriesToClone
    dirs,            \* directories under the destination root (environment)
    idx,             \* main: index of the clone loop (0-based)
    successCount,    \* main: successCount
    errorCount,      \* main: errorCount
    outcomes,        \* history: the Retrieval Outcome of each entry of this run
    execs,           \* history: the fetch commands issued during this run
    branchError,     \* cloneRepository: error of the branch-restricted fetch
    run,             \* 1, or 2 once the orchestrator is run again
    firstRun,        \* history: outcomes and directories at the end of run 1
    inFlight,        \* the plan entries with a fetch started and not finished
    fsOps,           \* history: the filesystem calls made by this run
    dryRunReport     \* history: the entries the dry run reported

vars ==
    << argv, pc, exitCode, fatalError, vaultFault, config, browser, pageKind,
       loginStep, authFailed, scrapeError, searchTriggered, currentPage, hits,
       seen, extractions, nextClicks, nexts, loopDone, searchResultSet, urls,
       shown, results, repositoriesToClone, dirs, idx, successCount, errorCount, outcomes,
       execs, branchError, run, firstRun, entryPoint, vault, consoleLog,
       inFlight, fsOps, dryRunReport, searchSaw, authLog,
       resolveLog >>

credVars == << vaultFault, config, vault, consoleLog >>
authVars == << pageKind, loginStep, authFailed, authLog >>
collectVars ==
    << searchTriggered, searchSaw, currentPage, hits, seen, extractions, nextClicks,
       nexts, loopDone, searchResultSet, urls, shown, resolveLog >>
mainVars == << results, repositoriesToClone, dryRunReport, entryPoint >>
cloneVars ==
    << dirs, idx, successCount, errorCount, outcomes, execs, branchError, run,
       firstRun, inFlight, fsOps >>

(***************************************************************************)
(* Options (yargs, part_000 12-62).                                        *)
(***************************************************************************)
\* --max-results: absent (undefined), or a number
MaxResultsValues ==
    {[given |-> FALSE, n |-> 0]} \cup {[given |-> TRUE, n |-> k] : k \in -1..MaxCap}

\* --branch: "" stands for undefined
BranchValues == {"", "develop"}

ArgvValues == [maxResults : MaxResultsValues, branch : BranchValues, dryRun : BOOLEAN]

\* JavaScript truthiness of argv.maxResults: undefined and 0 are falsy
Truthy(m) == m.given /\ m.n # 0

NoError == [cmd |-> "", stderr |-> ""]
NoFirstRun == [outcomes |-> <<>>, dirs |-> {}]

\* yargs' defaults; the values of the command line are drawn where main
\* first branches on them (line 112 onwards): nothing before depends on them
ArgvDefaults == [maxResults |-> [given |-> FALSE, n |-> 0], branch |-> "", dryRun |-> FALSE]

\* getGitCloneUrl was not called
NoResolution == [called |-> <<>>, last |-> <<>>]

\* the search dropdown was not looked at
NoSuggestions == [link |-> "", option |-> FALSE]

\* nothing read from the vault (yet, or any more)
NoVault ==
    [read |-> FALSE,
     v |-> [prefix |-> FALSE, readFails |-> "", username |-> <<>>,
            password |-> <<>>, otp |-> <<>>, atlassian |-> <<>>],
     t1 |-> "t0", t2 |-> "t0"]

\* the reads of getBitbucketAuth in program order (lines 50-58)
ReadOrder == <<"username", "password", "otp", "one-time password">>

\* history only: what getBitbucketAuth got to read from the vault v, a field
\* being empty when its read was not reached, and the times of the calls of
\* generateTOTP it got to make
VaultRead(v, t1, t2) ==
    LET reached(k) ==
            /\ v.prefix
            /\ \/ v.readFails = ""
               \/ k < FirstIndex(ReadOrder, v.readFails)
        called2 == v.prefix /\ v.readFails = "" /\ GenerateTOTP(v.otp, t1).ok
    IN  [read |-> TRUE,
         v |-> [prefix |-> v.prefix, readFails |-> IF v.prefix THEN v.readFails ELSE "",
                username |-> IF reached(1) THEN v.username ELSE <<>>,
                password |-> IF reached(2) THEN v.password ELSE <<>>,
                otp |-> IF reached(3) THEN v.otp ELSE <<>>,
                atlassian |-> IF reached(4) THEN v.atlassian ELSE <<>>],
         t1 |-> IF v.prefix /\ v.readFails = "" THEN t1 ELSE "t0",
         t2 |-> IF called2 THEN t2 ELSE "t0"]

Init ==
    /\ argv = ArgvDefaults
    /\ entryPoint = "cli"
    /\ vault = NoVault
    /\ consoleLog = {}
    /\ inFlight = {}
    /\ fsOps = {}
    /\ dryRunReport = <<>>
    /\ pc = "scrape"
    /\ exitCode = "running"
    /\ fatalError = ""
    /\ vaultFault = ""
    /\ config = NoConfig
    /\ browser = "none"
    /\ pageKind = "blank"
    /\ loginStep = 0
    /\ authFailed = FALSE
    /\ scrapeError = ""
    /\ searchTriggered = FALSE
    /\ searchSaw = NoSuggestions
    /\ resolveLog = NoResolution
    /\ authLog = <<>>
    /\ currentPage = 0
    /\ hits = <<>>
    /\ seen = <<>>
    /\ extractions = 0
    /\ nextClicks = 0
    /\ nexts = <<>>
    /\ loopDone = FALSE
    /\ searchResultSet = <<>>
    /\ urls = <<>>
    /\ shown = <<>>
    /\ results = <<>>
    /\ repositoriesToClone = <<>>
    /\ dirs = {}
    /\ idx = 0
    /\ successCount = 0
    /\ errorCount = 0
    /\ outcomes = <<>>
    /\ execs = <<>>
    /\ branchError = NoError
    /\ run = 1
    /\ firstRun = NoFirstRun

(***************************************************************************)
(* scrape: credentials, then the Session (logger.ts 241-250).              *)
(***************************************************************************)
\* the seeds that hold a base32 secret a code can be derived from
DerivableSecrets ==
    {RawSecretLower, RawSecretUpper, OtpauthUri, OtpauthVaultIssuer, OtpauthPlus}

\* history only: what is wrong with the vault the run meets
VaultFaultOf(v) ==
    IF ~v.prefix THEN "prefix"
    ELSE IF \/ v.readFails # ""
            \/ <<>> \in {v.username, v.password, v.otp, v.atlassian}
    THEN "field"
    ELSE IF v.otp \notin DerivableSecrets \/ v.atlassian \notin DerivableSecrets
    THEN "totp"
    ELSE ""

\* line 248, outside the try: a throw reaches main().catch
ScrapeGetAuth ==
    /\ pc = "scrape"
    /\ \E v \in VaultStates, t1 \in TimeSteps, t2 \in TimeSteps :
         LET r == GetBitbucketAuth(v, t1, t2)
         IN  /\ NotBefore(t1, t2)
             /\ vaultFault' = VaultFaultOf(v)
             /\ vault' = VaultRead(v, t1, t2)
             /\ consoleLog' = GetBitbucketAuthLogs(v, t1, t2)
             /\ config' = r.config
             /\ pc' = IF r.ok THEN "launch" ELSE "fatal"
             /\ fatalError' = r.error
    /\ UNCHANGED << argv, exitCode, browser, authVars, scrapeError, collectVars,
                    mainVars, cloneVars >>

\* line 249: chromium.launch, outside the try; what was read from the vault
\* is in the Credential Bundle now and is not looked at again
ScrapeLaunch ==
    /\ pc = "launch"
    /\ \E ok \in BOOLEAN :
         /\ browser' = IF ok THEN "open" ELSE "none"
         /\ pc' = IF ok THEN "newPage" ELSE "fatal"
         /\ fatalError' = IF ok THEN "" ELSE "launch"
    /\ vault' = NoVault
    /\ UNCHANGED << argv, exitCode, vaultFault, config, consoleLog, authVars,
                    scrapeError, collectVars, mainVars, cloneVars >>

\* line 250: browser.newPage, outside the try: a throw leaves scrape with the
\* browser open
ScrapeNewPage ==
    /\ pc = "newPage"
    /\ \E ok \in BOOLEAN :
         /\ pc' = IF ok THEN "auth" ELSE "fatal"
         /\ fatalError' = IF ok THEN "" ELSE "newPage"
    /\ UNCHANGED << argv, exitCode, credVars, browser, authVars, scrapeError,
                    collectVars, mainVars, cloneVars >>

(***************************************************************************)
(* Session Authenticator (logger.ts 402-463).                              *)
(***************************************************************************)
\* page.url() of what the page shows
UrlOf(kind) ==
    IF kind \in {"idp_login", "idp_challenge", "idp_rejected", "idp_code_rejected"}
    THEN <<"https://", "id.atlassian.com", "/login">>
    ELSE <<"https://", "bitbucket.org", "/">>

OnIdentityProviderAlways(url) == TRUE

\* currentUrl.includes('id.atlassian.com')
OnIdentityProvider(url) == "id.atlassian.com" \in SeqToSet(url)

\* history only: page.url() was read (lines 412 and 447)
Inspected(url) ==
    [op |-> "url", target |-> url[2], text |-> <<>>, code |-> NoCode, at |-> ""]

\* the fields of the Credential Bundle that hold a one-time code
CodeFields == {"atlassianOtp", "bitbucketOtp"}

\* a code derived anew when the challenge is met
CodeEnteredDerivedAtChallenge(cfg, field, now) == [cfg[field] EXCEPT !.step = now]

\* lines 452 and 456: the code a fill of the challenge enters at time now is
\* the one stored in the Credential Bundle
CodeEntered(cfg, field, now) == cfg[field]

\* history only: the statement s of handleAtlassianLogin completed at time
\* now ("" when it enters no code), with the field of the Credential Bundle
\* cfg it entered
Completed(s, cfg, now) ==
    [op |-> s.op, target |-> s.target,
     text |-> IF s.field \in {"username", "password"} THEN cfg[s.field] ELSE <<>>,
     code |-> IF s.field \in CodeFields THEN CodeEntered(cfg, s.field, now) ELSE NoCode,
     at |-> now]

\* authenticateWithBitbucket: goto the sign-in address, wait for the network
\* to settle (no timeout handler: expiry throws), inspect the address
AuthenticateWithBitbucket ==
    /\ pc = "auth"
    /\ \E out \in {"goto failed", "settle timeout", "signin", "idp_login"} :
         IF out \in {"goto failed", "settle timeout"}
         THEN /\ scrapeError' = out
              /\ pc' = "catch"
              /\ UNCHANGED << pageKind, loginStep, authLog >>
         ELSE /\ pageKind' = out
              /\ scrapeError' = ""
              /\ authLog' = <<Inspected(UrlOf(out))>>
              /\ IF OnIdentityProvider(UrlOf(out))
                 THEN pc' = "login" /\ loginStep' = 1
                 ELSE pc' = "goto" /\ loginStep' = 0
    /\ UNCHANGED << argv, exitCode, fatalError, credVars, browser, authFailed,
                    collectVars, mainVars, cloneVars >>

\* the secret entered before Continue is activated
LoginStepsSecretFirst ==
    << [op |-> "settle", target |-> "", field |-> ""],
       [op |-> "locate", target |-> "#username-uid1", field |-> ""],
       [op |-> "fill", target |-> "#username-uid1", field |-> "username"],
       [op |-> "fill", target |-> "Password", field |-> "password"],
       [op |-> "settle", target |-> "", field |-> ""],
       [op |-> "click", target |-> "Continue", field |-> ""],
       [op |-> "click", target |-> "Log In", field |-> ""],
       [op |-> "settle", target |-> "", field |-> ""],
       [op |-> "fill", target |-> "6-digit verification code", field |-> "atlassianOtp"],
       [op |-> "fill", target |-> "token", field |-> "bitbucketOtp"],
       [op |-> "click", target |-> "Verify", field |-> ""],
       [op |-> "settle", target |-> "", field |-> ""] >>

\* the two one-time codes entered into each other's field
LoginStepsCodesSwapped ==
    << [op |-> "settle", target |-> "", field |-> ""],
       [op |-> "locate", target |-> "#username-uid1", field |-> ""],
       [op |-> "fill", target |-> "#username-uid1", field |-> "username"],
       [op |-> "click", target |-> "Continue", field |-> ""],
       [op |-> "settle", target |-> "", field |-> ""],
       [op |-> "fill", target |-> "Password", field |-> "password"],
       [op |-> "click", target |-> "Log In", field |-> ""],
       [op |-> "settle", target |-> "", field |-> ""],
       [op |-> "fill", target |-> "6-digit verification code", field |-> "bitbucketOtp"],
       [op |-> "fill", target |-> "token", field |-> "atlassianOtp"],
       [op |-> "click", target |-> "Verify", field |-> ""],
       [op |-> "settle", target |-> "", field |-> ""] >>

\* the statements of handleAtlassianLogin, in program order
LoginSteps ==
    << [op |-> "settle", target |-> "", field |-> ""],
       [op |-> "locate", target |-> "#username-uid1", field |-> ""],
       [op |-> "fill", target |-> "#username-uid1", field |-> "username"],
       [op |-> "click", target |-> "Continue", field |-> ""],
       [op |-> "settle", target |-> "", field |-> ""],
       [op |-> "fill", target |-> "Password", field |-> "password"],
       [op |-> "click", target |-> "Log In", field |-> ""],
       [op |-> "settle", target |-> "", field |-> ""],
       [op |-> "fill", target |-> "6-digit verification code", field |-> "atlassianOtp"],
       [op |-> "fill", target |-> "token", field |-> "bitbucketOtp"],
       [op |-> "click", target |-> "Verify", field |-> ""],
       [op |-> "settle", target |-> "", field |-> ""] >>

\* the step after which the address is inspected again (lines 447-449)
UrlCheckAfter == 8

\* what the page can show after a step that succeeded (environment)
PageAfter(k, kind) ==
    IF LoginSteps[k].target = "Log In"
    THEN {"home", "idp_challenge", "idp_rejected"}
    ELSE IF LoginSteps[k].target = "Verify"
    THEN {"home", "idp_code_rejected"}
    ELSE {kind}

\* can the control of step k be there (environment): the one-time-code
\* fields and Verify exist on the challenge page only
ControlCanExist(k, kind) ==
    LoginSteps[k].op = "settle" \/ k <= UrlCheckAfter \/ kind = "idp_challenge"

\* the address not inspected after the secret is submitted
AfterLoginStepNoUrlCheck(k, kind) == IF k = Len(LoginSteps) THEN 0 ELSE k + 1

\* where handleAtlassianLogin goes after step k succeeded and the page shows
\* kind: the next step, or back to scrape
AfterLoginStep(k, kind) ==
    IF k = Len(LoginSteps) THEN 0
    ELSE IF k = UrlCheckAfter /\ ~OnIdentityProvider(UrlOf(kind)) THEN 0
    ELSE k + 1

\* the times at which step k can run (environment): not before the codes
\* were derived, nor before the code entered just before; "" for a step
\* that enters no code
StepTimes(k, cfg, log) ==
    IF LoginSteps[k].field \notin CodeFields THEN {""}
    ELSE {now \in TimeSteps :
            /\ NotBefore(cfg.bitbucketOtp.step, now)
            /\ NotBefore(cfg.atlassianOtp.step, now)
            /\ (log # <<>> /\ log[Len(log)].at # "") => NotBefore(log[Len(log)].at, now)}

\* one statement of handleAtlassianLogin; a control that is not located, or a
\* settle wait that expires, throws into scrape's catch
LoginStep ==
    /\ pc = "login"
    /\ loginStep \in 1..Len(LoginSteps)
    /\ \/ /\ scrapeError' = IF LoginSteps[loginStep].op = "settle"
                             THEN "settle timeout"
                             ELSE "control not found"
          /\ authFailed' = TRUE
          /\ pc' = "catch"
          /\ UNCHANGED << pageKind, loginStep, authLog >>
       \/ /\ ControlCanExist(loginStep, pageKind)
          /\ \E kind \in PageAfter(loginStep, pageKind),
                now \in StepTimes(loginStep, config, authLog) :
               /\ pageKind' = kind
               /\ authLog' = Append(authLog, Completed(LoginSteps[loginStep], config, now))
                               \o (IF loginStep = UrlCheckAfter
                                   THEN <<Inspected(UrlOf(kind))>>
                                   ELSE <<>>)
               /\ authFailed' = (kind \in {"idp_rejected", "idp_code_rejected"})
               /\ loginStep' = AfterLoginStep(loginStep, kind)
               /\ pc' = IF loginStep' = 0 THEN "goto" ELSE "login"
          /\ UNCHANGED scrapeError
    /\ UNCHANGED << argv, exitCode, fatalError, credVars, browser, collectVars,
                    mainVars, cloneVars >>

(***************************************************************************)
(* Pagination Collector (logger.ts 256-260, 301-399).                      *)
(***************************************************************************)
\* line 257: page.goto(uri), inside the try
ScrapeGoto ==
    /\ pc = "goto"
    /\ \E ok \in BOOLEAN :
         /\ pc' = IF ok THEN "search" ELSE "catch"
         /\ scrapeError' = IF ok THEN "" ELSE "goto failed"
         /\ pageKind' = IF ok THEN "target" ELSE pageKind
    /\ authLog' = <<>>
    /\ UNCHANGED << argv, exitCode, fatalError, credVars, browser, loginStep,
                    authFailed, collectVars, mainVars, cloneVars >>

\* what searchForCodeInBitbucket activates: the "Search for code in" link when
\* it is found and visible, the first option when the link is found but not
\* visible and the option is visible, nothing when no link is found
SearchActivates(link, option) ==
    IF link = "absent" THEN "nothing"
    ELSE IF link = "visible" THEN "link"
    ELSE IF option THEN "option"
    ELSE "nothing"

\* searchForCodeInBitbucket: fill the search input, look for the suggestion
SearchForCodeInBitbucket ==
    /\ pc = "search"
    /\ \E filled \in BOOLEAN, link \in {"absent", "visible", "hidden"},
          option \in BOOLEAN, clicked \in BOOLEAN :
         LET what == SearchActivates(link, option)
         IN  IF ~filled \/ (what # "nothing" /\ ~clicked)
             THEN /\ pc' = "catch"
                  /\ scrapeError' = "search control failed"
                  /\ UNCHANGED << searchTriggered, searchSaw, pageKind >>
             ELSE /\ pc' = "noresults"
                  /\ scrapeError' = ""
                  /\ searchTriggered' = (what # "nothing")
                  /\ searchSaw' = [link |-> link,
                                   option |-> link # "visible" /\ option]
                  /\ pageKind' = IF what # "nothing" THEN "results" ELSE pageKind
    /\ UNCHANGED << argv, exitCode, fatalError, credVars, browser, loginStep,
                    authFailed, authLog, currentPage, hits, seen, extractions,
                    nextClicks, nexts, loopDone, searchResultSet, urls, shown,
                    resolveLog, mainVars, cloneVars >>

\* the header groups a page can hold: no link at all, a link without href,
\* or a link whose href is one of these token strings
RawHrefs == { <<>>, <<"/a">>, <<" ", "/a", " ">>, <<"/b">>, <<"/c">> }

RawHeaders ==
    {[link |-> FALSE, href |-> <<>>]} \cup {[link |-> TRUE, href |-> h] : h \in RawHrefs}

\* history only: the Result Identifier a header group stands for, <<>> if none
IdentifierOf(header) == SelectSeq(header.href, LAMBDA c : c \notin Whitespace)

\* lines 331-334: what one header group adds to results
PushHref(res, href) == IF href # <<>> THEN Append(res, Trim(href)) ELSE res

\* scrapeForEachResult 309-316: the "no results" marker, else enter the loop
ScrapeNoResultsCheck ==
    /\ pc = "noresults"
    /\ \E marker \in BOOLEAN :
         IF marker
         THEN /\ pc' = "dedup"
              /\ UNCHANGED << currentPage, extractions >>
         ELSE /\ pc' = "rows"
              /\ currentPage' = 1
              /\ extractions' = 1
    /\ UNCHANGED << argv, exitCode, fatalError, credVars, browser, authVars,
                    scrapeError, searchTriggered, searchSaw, resolveLog, hits, seen, nextClicks, nexts,
                    loopDone, searchResultSet, urls, shown, mainVars, cloneVars >>

\* lines 328-335: the next header group of the current page, or none left
ScrapeRow ==
    /\ pc = "rows"
    /\ \/ /\ Len(seen) < MaxHits
          /\ \E header \in RawHeaders :
               IF ~header.link
               THEN /\ pc' = "catch"
                    /\ scrapeError' = "header link not found"
                    /\ UNCHANGED << hits, seen >>
               ELSE /\ hits' = PushHref(hits, header.href)
                    /\ seen' = IF IdentifierOf(header) # <<>>
                               THEN Append(seen, IdentifierOf(header))
                               ELSE seen
                    /\ UNCHANGED << pc, scrapeError >>
       \/ /\ pc' = "next"
          /\ UNCHANGED << hits, seen, scrapeError >>
    /\ UNCHANGED << argv, exitCode, fatalError, credVars, browser, authVars,
                    searchTriggered, searchSaw, resolveLog, currentPage, extractions, nextClicks, nexts,
                    loopDone, searchResultSet, urls, shown, mainVars, cloneVars >>

\* line 341: the loop goes on when Next is visible and not disabled
HasNextPageVisibleOnly(next) == next \in {"enabled", "disabled"}

HasNextPage(next) == next = "enabled"

\* lines 339-347: the Next control; a page without the control makes
\* getAttribute throw
ScrapeNext ==
    /\ pc = "next"
    /\ \E next \in {"enabled", "disabled", "hidden", "absent"} :
         /\ next = "enabled" => currentPage < MaxPages
         /\ IF next = "absent"
            THEN /\ pc' = "catch"
                 /\ scrapeError' = "Next not found"
                 /\ UNCHANGED << currentPage, extractions, nextClicks, nexts, loopDone >>
            ELSE IF HasNextPage(next)
            THEN /\ pc' = "rows"
                 /\ currentPage' = currentPage + 1
                 /\ extractions' = extractions + 1
                 /\ nextClicks' = nextClicks + 1
                 /\ nexts' = Append(nexts, next)
                 /\ UNCHANGED << scrapeError, loopDone >>
            ELSE /\ pc' = "dedup"
                 /\ loopDone' = TRUE
                 /\ nexts' = Append(nexts, next)
                 /\ UNCHANGED << scrapeError, currentPage, extractions, nextClicks >>
    /\ UNCHANGED << argv, exitCode, fatalError, credVars, browser, authVars,
                    searchTriggered, searchSaw, resolveLog, hits, seen, searchResultSet, urls, shown,
                    mainVars, cloneVars >>

\* new Set(searchResults), iterated in insertion order
RECURSIVE InsertionOrder(_, _)
InsertionOrder(s, acc) ==
    IF s = <<>> THEN acc
    ELSE InsertionOrder(Tail(s),
                        IF Head(s) \in SeqToSet(acc) THEN acc ELSE Append(acc, Head(s)))

NewSetKeepAll(searchResults) == searchResults

NewSet(searchResults) == InsertionOrder(searchResults, <<>>)

\* scrapeForEachResult returns (its frame and the history of its loop end
\* here), and line 260
ScrapeDedup ==
    /\ pc = "dedup"
    /\ searchResultSet' = NewSet(hits)
    /\ pc' = "resolve"
    /\ currentPage' = 0
    /\ extractions' = 0
    /\ nextClicks' = 0
    /\ nexts' = <<>>
    /\ loopDone' = FALSE
    /\ UNCHANGED << argv, exitCode, fatalError, credVars, browser, authVars,
                    scrapeError, searchTriggered, searchSaw, resolveLog, hits, seen, urls, shown,
                    mainVars, cloneVars >>

(***************************************************************************)
(* Address Resolver (logger.ts 262-267, 282-299).                          *)
(***************************************************************************)
AppWs1 == <<"https:", "/", "/", "bitbucket.org", "/", "ws1", "/", "app", ".", "git">>
AppWs2 == <<"https:", "/", "/", "bitbucket.org", "/", "ws2", "/", "app", ".", "git">>
MyRepo == <<"https:", "/", "/", "bitbucket.org", "/", "ws1", "/", "my", ".", "repo", ".", "git">>

Addresses == {AppWs1, AppWs2, MyRepo}

\* the value of the "Copyable input" of a hit's page: "git clone <address>"
CopyValue(addr) == <<"git clone ">> \o addr

\* the repository pages a hit can belong to (environment): two hits can be
\* files of one repository, two repositories can share a name
RepositoriesOf(href) ==
    IF href = <<"/a">> THEN {AppWs1, MyRepo}
    ELSE IF href = <<"/b">> THEN {AppWs1, AppWs2}
    ELSE {AppWs2, MyRepo}

\* line 297
StripPrefix(inputLinkHref) == RemoveFirst(inputLinkHref, "git clone ")

\* a navigation that failed ends the resolution
GetGitCloneUrlNavigationFatal(navigated, clone, value) ==
    IF ~navigated
    THEN [ok |-> FALSE, error |-> "goto failed", url |-> <<>>,
          steps |-> <<"goto failed">>]
    ELSE IF ~clone
    THEN [ok |-> FALSE, error |-> "Clone not found", url |-> <<>>,
          steps |-> <<"goto">>]
    ELSE IF value = <<>>
    THEN [ok |-> FALSE, error |-> "Git clone URL not found", url |-> <<>>,
          steps |-> <<"goto", "click Clone", "read input">>]
    ELSE [ok |-> TRUE, error |-> "", url |-> StripPrefix(value),
          steps |-> <<"goto", "click Clone", "read input">>]

\* getGitCloneUrl: the navigation (goto and settle wait) succeeded or threw
\* and was caught, the Clone control is there or not, the "Copyable input"
\* holds value (<<>> for none); what it returns or throws, and the
\* statements that completed
GetGitCloneUrl(navigated, clone, value) ==
    LET opened == IF navigated THEN "goto" ELSE "goto failed"
    IN  IF ~clone
        THEN [ok |-> FALSE, error |-> "Clone not found", url |-> <<>>,
              steps |-> <<opened>>]
        ELSE IF value = <<>>
        THEN [ok |-> FALSE, error |-> "Git clone URL not found", url |-> <<>>,
              steps |-> <<opened, "click Clone", "read input">>]
        ELSE [ok |-> TRUE, error |-> "", url |-> StripPrefix(value),
              steps |-> <<opened, "click Clone", "read input">>]

\* one iteration of the loop of lines 263-266, getGitCloneUrl included: the
\* navigation may fail (tolerated), Clone may be missing (throws), the input
\* may have no value (throws 'Git clone URL not found')
ScrapeResolve ==
    /\ pc = "resolve"
    /\ Len(urls) < Len(searchResultSet)
    /\ LET href == searchResultSet[Len(urls) + 1]
       IN  \E navigated \in BOOLEAN,
              value \in {<<>>, <<"no Clone control">>}
                        \cup {CopyValue(a) : a \in RepositoriesOf(href)} :
             LET clone == value # <<"no Clone control">>
                 r == GetGitCloneUrl(navigated, clone, IF clone THEN value ELSE <<>>)
             IN  /\ resolveLog' = [called |-> Append(resolveLog.called, href),
                                   last |-> r.steps]
                 /\ IF ~r.ok
                    THEN /\ pc' = "catch"
                         /\ scrapeError' = r.error
                         /\ UNCHANGED << urls, shown, pageKind >>
                    ELSE /\ urls' = Append(urls, r.url)
                         /\ shown' = Append(shown, Tail(value))
                         /\ pageKind' = "hit"
                         /\ UNCHANGED << pc, scrapeError >>
    /\ UNCHANGED << argv, exitCode, fatalError, credVars, browser, loginStep,
                    authFailed, authLog, searchTriggered, searchSaw, currentPage, hits, seen,
                    extractions, nextClicks, nexts, loopDone, searchResultSet,
                    mainVars, cloneVars >>

\* the browser left as it is
FinallySkipped(b) == b

\* the finally of lines 275-277: browser.close()
Finally(b) == "closed"

\* line 267 and the finally of 275-277: return results, close the browser;
\* the Credential Bundle, a local of scrape, is gone, and so is the frame of
\* the last call of getGitCloneUrl
ScrapeReturn ==
    /\ pc = "resolve"
    /\ Len(urls) = Len(searchResultSet)
    /\ results' = urls
    /\ browser' = Finally(browser)
    /\ config' = NoConfig
    /\ resolveLog' = [resolveLog EXCEPT !.last = <<>>]
    /\ pc' = "scraped"
    /\ UNCHANGED << argv, exitCode, fatalError, vaultFault, vault, consoleLog,
                    authVars, scrapeError, searchTriggered, searchSaw,
                    currentPage, hits, seen, extractions, nextClicks, nexts,
                    loopDone, searchResultSet, urls, shown,
                    repositoriesToClone, dryRunReport, entryPoint, cloneVars >>

\* lines 268-277: any throw inside the try is logged, [] is returned and the
\* browser is closed
CatchResultPartial(partial) == partial

CatchResult(partial) == <<>>

ScrapeCatch ==
    /\ pc = "catch"
    /\ results' = CatchResult(urls)
    /\ browser' = Finally(browser)
    /\ config' = NoConfig
    /\ pc' = "scraped"
    /\ UNCHANGED << argv, exitCode, fatalError, vaultFault, vault, consoleLog,
                    authVars, scrapeError,
                    collectVars, repositoriesToClone, dryRunReport, entryPoint,
                    cloneVars >>

\* main().catch (part_000 219-228): log, exit(1)
MainCatch ==
    /\ pc = "fatal"
    /\ exitCode' = 1
    /\ pc' = "exited"
    /\ UNCHANGED << argv, fatalError, credVars, browser, authVars, scrapeError,
                    collectVars, mainVars, cloneVars >>

(***************************************************************************)
(* main after scrape (part_000 108-139).                                   *)
(***************************************************************************)
\* lines 118-120: the cap is applied only when argv.maxResults is truthy
Plan(res, m) == IF Truthy(m) THEN Slice0(res, m.n) ELSE res

\* lines 110-122: no results ends the run (exit 0), else the plan is made
MainAfterScrape ==
    /\ pc = "scraped"
    /\ IF results = <<>>
       THEN /\ pc' = "exited"
            /\ exitCode' = 0
            /\ UNCHANGED << argv, repositoriesToClone >>
       ELSE /\ pc' = "planned"
            /\ argv' \in ArgvValues
            /\ repositoriesToClone' = Plan(results, argv'.maxResults)
            /\ UNCHANGED exitCode
    /\ UNCHANGED << fatalError, credVars, browser, authVars, scrapeError,
                    collectVars, results, dryRunReport, entryPoint, cloneVars >>

\* scrape has returned and the plan is made: nothing after line 122 reads
\* the frame of scrape or the page, and the history of the discovery stage
\* is not carried into the retrieval stage
ForgetDiscovery ==
    /\ pageKind' = "blank"
    /\ loginStep' = 0
    /\ authFailed' = FALSE
    /\ searchTriggered' = FALSE
    /\ searchSaw' = NoSuggestions
    /\ resolveLog' = NoResolution
    /\ authLog' = <<>>
    /\ currentPage' = 0
    /\ hits' = <<>>
    /\ seen' = <<>>
    /\ extractions' = 0
    /\ nextClicks' = 0
    /\ nexts' = <<>>
    /\ loopDone' = FALSE
    /\ searchResultSet' = <<>>
    /\ urls' = <<>>
    /\ shown' = <<>>

\* lines 127-131 with the last entry left out
DryRunLinesButLast(plan, branch) ==
    [i \in 1..(Len(plan) - 1) |->
        [name |-> Pop(Split(plan[i], "/")), address |-> plan[i], branch |-> branch]]

\* lines 127-131: one line per entry of the plan: result.split('/').pop(),
\* the address, and the branch when one was asked for
DryRunLines(plan, branch) ==
    [i \in 1..Len(plan) |->
        [name |-> Pop(Split(plan[i], "/")), address |-> plan[i], branch |-> branch]]

\* lines 124-133: dry run reports the plan and returns
MainDryRun ==
    /\ pc = "planned"
    /\ argv.dryRun
    /\ dryRunReport' = DryRunLines(repositoriesToClone, argv.branch)
    /\ pc' = "exited"
    /\ exitCode' = 0
    /\ ForgetDiscovery
    /\ UNCHANGED << argv, fatalError, credVars, browser, scrapeError, results,
                    repositoriesToClone, entryPoint, cloneVars >>

\* what the destination root can hold before the first run (environment)
InitialDirs == { {}, {<<"app">>} }

\* lines 135-142: create the destination root when missing; the filesystem
\* is first looked at here
MainMkdir ==
    /\ pc = "planned"
    /\ ~argv.dryRun
    /\ \E rootExists \in BOOLEAN, d \in InitialDirs :
         /\ ~rootExists => d = {}
         /\ dirs' = d
         /\ fsOps' = {"existsSync root"}
                      \cup (IF rootExists THEN {} ELSE {"mkdirSync root"})
    /\ idx' = 0
    /\ successCount' = 0
    /\ errorCount' = 0
    /\ pc' = "loop"
    /\ ForgetDiscovery
    /\ UNCHANGED << argv, exitCode, fatalError, credVars, browser, scrapeError,
                    mainVars, outcomes, execs, branchError, run, firstRun,
                    inFlight >>

(***************************************************************************)
(* Retrieval Orchestrator (part_000 141-217).                              *)
(***************************************************************************)
\* line 128 (dry run): result.split('/').pop()
LastSegment(result) == Pop(Split(result, "/"))

\* line 145: result.split('/').pop()?.split('.')[0]
ShortName(result) == Split(LastSegment(result), ".")[1]

\* what git can write to stderr when a fetch fails (environment)
Stderrs == {"fatal"}

\* error.message of a failed exec: "Command failed: <cmd>\n<stderr>"
ExecError(cmd, stderr) == [cmd |-> cmd, stderr |-> stderr]

\* history only: one fetch command issued for a plan entry, stderr "" when it
\* succeeded
Fetch(entry, cmd, stderr) == [entry |-> entry, cmd |-> cmd, stderr |-> stderr]

Skipped(name) == [tag |-> "Skipped", name |-> name, branch |-> "", error |-> NoError]
Succeeded(name, branch) ==
    [tag |-> "Succeeded", name |-> name, branch |-> branch, error |-> NoError]
Failed(name, error) == [tag |-> "Failed", name |-> name, branch |-> "", error |-> error]

\* line 148: existsSync(`${config.clonePath}/${repoName}`)
DestinationExistsByLastSegment(result, existing) == LastSegment(result) \in existing

DestinationExists(result, existing) == ShortName(result) \in existing

\* the two counters of main, as one value
Counts == [successCount |-> successCount, errorCount |-> errorCount]

\* line 155: cloneRepository resolved
CloneResolved(c) == [c EXCEPT !.successCount = @ + 1]

CloneRejectedUncounted(c) == c

\* lines 156-159: cloneRepository rejected, the catch counts the failure
CloneRejected(c) == [c EXCEPT !.errorCount = @ + 1]

AfterCloneErrorUncaught == "fatal"

\* lines 156-160: the catch ends the iteration, the loop goes on
AfterCloneError == "loop"

\* lines 144-151 and the call of line 154: the next entry of the plan; the
\* call of cloneRepository starts the first exec
MainLoopEntry ==
    /\ pc = "loop"
    /\ idx < Len(repositoriesToClone)
    /\ fsOps' = fsOps \cup {"existsSync destination"}
    /\ LET repoName == ShortName(repositoriesToClone[idx + 1])
       IN  IF DestinationExists(repositoriesToClone[idx + 1], dirs)
           THEN /\ outcomes' = Append(outcomes, Skipped(repoName))
                /\ idx' = idx + 1
                /\ UNCHANGED << pc, inFlight >>
           ELSE /\ pc' = IF argv.branch # "" THEN "clone_branch" ELSE "clone_default"
                /\ inFlight' = inFlight \cup {idx + 1}
                /\ UNCHANGED << outcomes, idx >>
    /\ UNCHANGED << argv, exitCode, fatalError, credVars, browser, authVars,
                    scrapeError, collectVars, mainVars, dirs, successCount,
                    errorCount, execs, branchError, run, firstRun >>

\* the message cloneRepository rejects with after both fetches failed
RejectsWithBranchError(branchErr, fallbackErr) == branchErr

RejectsWith(branchErr, fallbackErr) == fallbackErr

\* lines 187-204: git clone -b <branch>; success resolves (main counts it),
\* failure goes on to the fallback
CloneBranch ==
    /\ pc = "clone_branch"
    /\ LET result == repositoriesToClone[idx + 1]
           repoName == ShortName(result)
       IN  \/ /\ execs' = Append(execs, Fetch(idx + 1, "git clone -b", ""))
              /\ dirs' = dirs \cup {repoName}
              /\ outcomes' = Append(outcomes, Succeeded(repoName, argv.branch))
              /\ successCount' = CloneResolved(Counts).successCount
              /\ errorCount' = CloneResolved(Counts).errorCount
              /\ inFlight' = inFlight \ {idx + 1}
              /\ idx' = idx + 1
              /\ pc' = "loop"
              /\ UNCHANGED branchError
           \/ \E e \in Stderrs :
                /\ execs' = Append(execs, Fetch(idx + 1, "git clone -b", e))
                /\ branchError' = ExecError("git clone -b", e)
                /\ pc' = "clone_fallback"
                /\ UNCHANGED << dirs, outcomes, successCount, errorCount, idx,
                                inFlight >>
    /\ UNCHANGED << argv, exitCode, fatalError, credVars, browser, authVars,
                    scrapeError, collectVars, mainVars, run, firstRun, fsOps >>

\* lines 192-199 and 155-158: the unrestricted fetch after the branch failed
CloneFallback ==
    /\ pc = "clone_fallback"
    /\ LET result == repositoriesToClone[idx + 1]
           repoName == ShortName(result)
       IN  /\ \/ /\ execs' = Append(execs, Fetch(idx + 1, "git clone", ""))
                 /\ dirs' = dirs \cup {repoName}
                 /\ outcomes' = Append(outcomes, Succeeded(repoName, ""))
                 /\ successCount' = CloneResolved(Counts).successCount
                 /\ errorCount' = CloneResolved(Counts).errorCount
                 /\ pc' = "loop"
              \/ \E e \in Stderrs :
                   /\ execs' = Append(execs, Fetch(idx + 1, "git clone", e))
                   /\ outcomes' = Append(outcomes,
                          Failed(repoName, RejectsWith(branchError, ExecError("git clone", e))))
                   /\ successCount' = CloneRejected(Counts).successCount
                   /\ errorCount' = CloneRejected(Counts).errorCount
                   /\ pc' = AfterCloneError
                   /\ UNCHANGED dirs
           /\ inFlight' = inFlight \ {idx + 1}
           /\ idx' = idx + 1
           /\ branchError' = NoError
    /\ UNCHANGED << argv, exitCode, fatalError, credVars, browser, authVars,
                    scrapeError, collectVars, mainVars, run, firstRun, fsOps >>

\* lines 205-214 and 155-158: no branch requested, one unrestricted fetch
CloneDefault ==
    /\ pc = "clone_default"
    /\ LET result == repositoriesToClone[idx + 1]
           repoName == ShortName(result)
       IN  /\ \/ /\ execs' = Append(execs, Fetch(idx + 1, "git clone", ""))
                 /\ dirs' = dirs \cup {repoName}
                 /\ outcomes' = Append(outcomes, Succeeded(repoName, ""))
                 /\ successCount' = CloneResolved(Counts).successCount
                 /\ errorCount' = CloneResolved(Counts).errorCount
                 /\ pc' = "loop"
              \/ \E e \in Stderrs :
                   /\ execs' = Append(execs, Fetch(idx + 1, "git clone", e))
                   /\ outcomes' = Append(outcomes, Failed(repoName, ExecError("git clone", e)))
                   /\ successCount' = CloneRejected(Counts).successCount
                   /\ errorCount' = CloneRejected(Counts).errorCount
                   /\ pc' = AfterCloneError
                   /\ UNCHANGED dirs
           /\ inFlight' = inFlight \ {idx + 1}
           /\ idx' = idx + 1
    /\ UNCHANGED << argv, exitCode, fatalError, credVars, browser, authVars,
                    scrapeError, collectVars, mainVars, branchError, run, firstRun,
                    fsOps >>

\* lines 162-179: the completion summary; main returns, the process exits 0
MainSummary ==
    /\ pc = "loop"
    /\ idx = Len(repositoriesToClone)
    /\ pc' = "exited"
    /\ exitCode' = 0
    /\ firstRun' = IF run = 1 THEN [outcomes |-> outcomes, dirs |-> dirs] ELSE firstRun
    /\ run' = run
    /\ UNCHANGED << argv, fatalError, credVars, browser, authVars, scrapeError,
                    collectVars, mainVars, dirs, idx, successCount, errorCount,
                    outcomes, execs, branchError, inFlight, fsOps >>

\* the orchestrator run a second time on the same plan and destination root
\* (lines 135-160 again: the root exists now)
RunAgain ==
    /\ pc = "exited"
    /\ exitCode = 0
    /\ run = 1
    /\ idx = Len(repositoriesToClone)
    /\ repositoriesToClone # <<>>
    /\ ~argv.dryRun
    /\ run' = 2
    /\ pc' = "loop"
    /\ exitCode' = "running"
    /\ idx' = 0
    /\ successCount' = 0
    /\ errorCount' = 0
    /\ outcomes' = <<>>
    /\ execs' = <<>>
    /\ fsOps' = {"existsSync root"}
    /\ UNCHANGED << argv, fatalError, credVars, browser, authVars, scrapeError,
                    collectVars, mainVars, dirs, branchError, firstRun, inFlight >>

(***************************************************************************)
(* The script src/index.ts: scrape, then one exec per result.  It is the   *)
(* same scrape; the two scripts first differ where scrape has returned or  *)
(* thrown, and the script that runs is drawn there.                        *)
(***************************************************************************)
\* index.ts 27: main() has no catch; the rejection is unhandled and ends the
\* process with status 1
IndexUnhandledRejection ==
    /\ pc = "fatal"
    /\ entryPoint' = "index"
    /\ exitCode' = 1
    /\ pc' = "exited"
    /\ UNCHANGED << argv, fatalError, credVars, browser, authVars, scrapeError,
                    collectVars, results, repositoriesToClone, dryRunReport,
                    cloneVars >>

\* index.ts 14-16: the results of scrape are iterated as they are; without
\* results main returns at once
IndexMain ==
    /\ pc = "scraped"
    /\ entryPoint' = "index"
    /\ IF results = <<>>
       THEN /\ pc' = "exited"
            /\ exitCode' = 0
            /\ UNCHANGED << authVars, collectVars, dirs >>
       ELSE /\ pc' = "index_loop"
            /\ dirs' \in InitialDirs
            /\ ForgetDiscovery
            /\ UNCHANGED exitCode
    /\ UNCHANGED << argv, fatalError, credVars, browser, scrapeError, results,
                    repositoriesToClone, dryRunReport, idx, successCount,
                    errorCount, outcomes, execs, branchError, run, firstRun,
                    inFlight, fsOps >>

\* index.ts 16-24: one iteration: the destination root is created when
\* missing, exec starts the fetch and is not waited for
IndexLoopEntry ==
    /\ pc = "index_loop"
    /\ idx < Len(results)
    /\ \E rootExists \in BOOLEAN :
         /\ ~rootExists => (idx = 0 /\ dirs = {})
         /\ fsOps' = fsOps \cup {"existsSync root"}
                      \cup (IF rootExists THEN {} ELSE {"mkdirSync root"})
    /\ inFlight' = inFlight \cup {idx + 1}
    /\ idx' = idx + 1
    /\ UNCHANGED << argv, pc, exitCode, fatalError, credVars, browser, authVars,
                    scrapeError, collectVars, mainVars, dirs, successCount,
                    errorCount, outcomes, execs, branchError, run, firstRun >>

\* a fetch started by index.ts 23 ends; there is no callback
IndexExecDone ==
    /\ pc = "index_loop"
    /\ \E i \in inFlight, e \in Stderrs \cup {""} :
         /\ execs' = Append(execs, Fetch(i, "git clone", e))
         /\ dirs' = IF e = "" THEN dirs \cup {LastSegment(results[i])} ELSE dirs
         /\ inFlight' = inFlight \ {i}
    /\ UNCHANGED << argv, pc, exitCode, fatalError, credVars, browser, authVars,
                    scrapeError, collectVars, mainVars, idx, successCount,
                    errorCount, outcomes, branchError, run, firstRun, fsOps >>

\* main has returned and no child process is left: the process exits 0
IndexExit ==
    /\ pc = "index_loop"
    /\ idx = Len(results)
    /\ inFlight = {}
    /\ pc' = "exited"
    /\ exitCode' = 0
    /\ UNCHANGED << argv, fatalError, credVars, browser, authVars, scrapeError,
                    collectVars, mainVars, cloneVars >>

Next ==
    \/ ScrapeGetAuth
    \/ ScrapeLaunch
    \/ ScrapeNewPage
    \/ AuthenticateWithBitbucket
    \/ LoginStep
    \/ ScrapeGoto
    \/ SearchForCodeInBitbucket
    \/ ScrapeNoResultsCheck
    \/ ScrapeRow
    \/ ScrapeNext
    \/ ScrapeDedup
    \/ ScrapeResolve
    \/ ScrapeReturn
    \/ ScrapeCatch
    \/ MainCatch
    \/ MainAfterScrape
    \/ MainDryRun
    \/ MainMkdir
    \/ MainLoopEntry
    \/ CloneBranch
    \/ CloneFallback
    \/ CloneDefault
    \/ MainSummary
    \/ RunAgain
    \/ IndexUnhandledRejection
    \/ IndexMain
    \/ IndexLoopEntry
    \/ IndexExecDone
    \/ IndexExit

Spec == Init /\ [][Next]_vars

(***************************************************************************)
(* Properties.                                                             *)
(***************************************************************************)
\* the identifiers of s in the order of their first appearance
RECURSIVE FirstSeenFrom(_, _)
FirstSeenFrom(s, i) ==
    IF i > Len(s) THEN <<>>
    ELSE (IF FirstIndex(s, s[i]) = i THEN <<s[i]>> ELSE <<>>) \o FirstSeenFrom(s, i + 1)

FirstSeen(s) == FirstSeenFrom(s, 1)

\* C1: the list handed to address resolution holds every identifier that
\* appears on a page exactly once, whatever its repetitions, in the order of
\* first appearance.
C1_DedupFirstSeen ==
    pc = "resolve" =>
        /\ NoDup(searchResultSet)
        /\ SeqToSet(searchResultSet) = SeqToSet(seen)
        /\ \A i, j \in 1..Len(searchResultSet) :
              i < j => FirstIndex(seen, searchResultSet[i]) < FirstIndex(seen, searchResultSet[j])

\* C1 witness: resolution starts on a list shorter than the hits seen, one
\* identifier having been seen three times and once with padded href
C1_Witness ==
    /\ pc = "resolve"
    /\ Len(seen) = MaxHits
    /\ Len(searchResultSet) = 2
    /\ urls = <<>>
    /\ \E i \in 1..Len(seen) : FirstIndex(seen, seen[i]) < i

\* C2 (as claimed): with a --max-results count K >= 0, 0 included, the plan
\* never has more than K entries, and when K < M it is the first K of the M
\* discovered addresses.
C2_CapAsClaimed ==
    (pc = "planned" /\ argv.maxResults.given /\ argv.maxResults.n >= 0) =>
        LET K == argv.maxResults.n
            M == Len(results)
        IN  /\ Len(repositoriesToClone) <= K
            /\ K < M => repositoriesToClone = SubSeq(results, 1, K)

\* the first-seen identifiers, each mapped to the address its page showed
ExpectedAddresses == [i \in 1..Len(FirstSeen(seen)) |-> shown[i]]

\* s truncated to the cap m (no cap given: s itself)
TruncatedTo(s, m) == IF m.given THEN SubSeq(s, 1, Min2(Max2(m.n, 0), Len(s))) ELSE s

\* C3 (as claimed): for every page sequence and every cap (none, or a count
\* K >= 0) the plan is the first-seen sequence of hits, each mapped to its
\* transport address, truncated to the cap.
C3_EndToEndAsClaimed ==
    (pc = "planned" /\ (argv.maxResults.given => argv.maxResults.n >= 0)) =>
        /\ Len(shown) = Len(FirstSeen(seen))
        /\ repositoriesToClone = TruncatedTo(ExpectedAddresses, argv.maxResults)

\* C4: with Next enabled on pages 1..N-1 and disabled on page N the loop is
\* over after exactly N pages: it never goes on past a page whose Next is
\* disabled, and when it has ended there were N extractions, one per page,
\* and N-1 activations of Next.
C4_PaginationStops ==
    /\ pc \in {"rows", "next"} => \A k \in 1..Len(nexts) : nexts[k] # "disabled"
    /\ loopDone =>
          LET N == Len(nexts)
          IN  (/\ nexts[N] = "disabled"
               /\ \A k \in 1..(N - 1) : nexts[k] = "enabled")
              => /\ pc = "dedup"
                 /\ currentPage = N
                 /\ extractions = N
                 /\ nextClicks = N - 1

\* C4 witness: the loop ended on the disabled Next of the last page, after an
\* enabled Next before it
C4_Witness ==
    /\ loopDone
    /\ Len(nexts) = MaxPages
    /\ nexts[MaxPages] = "disabled"
    /\ nexts[1] = "enabled"
    /\ seen # <<>>

\* the fetches issued for plan entry i, in the order issued
FetchesOf(i) == SelectSeq(execs, LAMBDA f : f.entry = i)

\* C5: when the branch-restricted fetch of an entry failed, an unrestricted
\* fetch of that entry is issued before its outcome is recorded, and when
\* that fails too the outcome is Failed with the message of the unrestricted
\* fetch.
C5_BranchFallback ==
    /\ pc = "clone_fallback" =>
          /\ Len(outcomes) = idx
          /\ Len(FetchesOf(idx + 1)) = 1
          /\ FetchesOf(idx + 1)[1].cmd = "git clone -b"
    /\ \A i \in 1..Len(outcomes) :
          LET fs == FetchesOf(i)
          IN  (fs # <<>> /\ fs[1].cmd = "git clone -b" /\ fs[1].stderr # "") =>
                  /\ Len(fs) = 2
                  /\ fs[2].cmd = "git clone"
                  /\ fs[2].stderr # "" =>
                        /\ outcomes[i].tag = "Failed"
                        /\ outcomes[i].error = ExecError("git clone", fs[2].stderr)
                        /\ outcomes[i].error # ExecError(fs[1].cmd, fs[1].stderr)
                  /\ fs[2].stderr = "" => outcomes[i].tag = "Succeeded"

\* C5 witness: an entry is Failed after both of its fetches failed
C5_Witness ==
    /\ argv.branch # ""
    /\ \E i \in 1..Len(outcomes) :
          /\ outcomes[i].tag = "Failed"
          /\ Len(FetchesOf(i)) = 2

\* C6 (as claimed): on the second run every entry is Skipped and no fetch is
\* issued, whatever the outcomes of the first run.
C6_SecondRunAsClaimed ==
    run = 2 =>
        /\ execs = <<>>
        /\ \A i \in 1..Len(outcomes) : outcomes[i].tag = "Skipped"

\* C6 (amended): on the second run every entry that Succeeded or was Skipped
\* in the first run is Skipped, and no fetch is issued for it; fetches of the
\* second run are for entries that Failed in the first.
C6_SecondRunSkipsRetrieved ==
    run = 2 =>
        /\ \A i \in 1..Len(outcomes) :
              firstRun.outcomes[i].tag # "Failed" =>
                  /\ outcomes[i].tag = "Skipped"
                  /\ FetchesOf(i) = <<>>
        /\ \A k \in 1..Len(execs) : firstRun.outcomes[execs[k].entry].tag = "Failed"

\* C6 witness: the second run has gone through a plan of two entries, one
\* Succeeded and one Failed in the first run
C6_Witness ==
    /\ run = 2
    /\ pc = "exited"
    /\ Len(outcomes) = 2
    /\ \E i, j \in 1..2 :
          /\ firstRun.outcomes[i].tag = "Succeeded"
          /\ firstRun.outcomes[j].tag = "Failed"
          /\ outcomes[i].tag = "Skipped"

\* C7 (as claimed): no run ends with a Session that was opened and not
\* closed.
C7_SessionClosedAsClaimed == pc = "exited" => browser # "open"

\* the positions after an operation of search, pagination or address
\* resolution was performed on the Session (page.goto(uri) is the first)
SessionUsedForDiscovery == pc \in {"search", "noresults", "rows", "next", "dedup", "resolve"}

\* C8 (as claimed): once authentication has failed no search, pagination or
\* address-resolution operation is performed on the Session.
C8_NoUseAfterAuthFailureAsClaimed == authFailed => ~SessionUsedForDiscovery

\* C9 (as claimed): a failure raised while the Session is in use ends the
\* process with non-zero status.
C9_FailureExitsNonZeroAsClaimed ==
    (pc = "exited" /\ scrapeError # "") => exitCode = 1

\* C9 (amended): a failure raised while the Session is in use is caught by
\* scrape: the Session is closed, scrape returns the empty list, no plan is
\* made and nothing is fetched, and the process ends with status zero.
C9_FailureCaughtExitsZero ==
    (scrapeError # "" /\ pc \notin {"catch"}) =>
        /\ pc \in {"scraped", "exited"}
        /\ browser = "closed"
        /\ results = <<>>
        /\ repositoriesToClone = <<>>
        /\ execs = <<>>
        /\ fatalError = ""
        /\ pc = "exited" => exitCode = 0

\* C9 witness: the run has ended after an address resolution failed with
\* one address already resolved
C9_Witness ==
    /\ pc = "exited"
    /\ scrapeError = "Git clone URL not found"
    /\ urls # <<>>

\* C10: a credential resolution failure aborts the run before any Session is
\* opened: no browser, no plan, no fetch, exit status 1.
C10_CredentialFailureAborts ==
    vaultFault # "" =>
        /\ pc \in {"fatal", "exited"}
        /\ fatalError \in {"prefix", "read", "totp", "required"}
        /\ browser = "none"
        /\ repositoriesToClone = <<>>
        /\ execs = <<>>
        /\ pc = "exited" => exitCode = 1

\* C10 witness: the process has exited on a missing required field
C10_Witness ==
    /\ vaultFault = "field"
    /\ fatalError = "required"
    /\ pc = "exited"
    /\ exitCode = 1

\* C11: when the address resolution of one identifier fails, scrape returns
\* no address at all, the addresses resolved before the failure included: no
\* plan is made and nothing is fetched in that run.
C11_ResolutionFailureNoPartialList ==
    scrapeError \in {"Clone not found", "Git clone URL not found"} =>
        /\ pc \in {"catch", "scraped", "exited"}
        /\ pc # "catch" => results = <<>>
        /\ repositoriesToClone = <<>>
        /\ execs = <<>>
        /\ outcomes = <<>>

\* C11 witness: scrape has returned after the Clone control of the second
\* identifier was missing, the address of the first being resolved
C11_Witness ==
    /\ pc = "scraped"
    /\ scrapeError = "Clone not found"
    /\ Len(urls) = 1
    /\ Len(searchResultSet) >= 2
    /\ results = <<>>

\* C12: a failed retrieval is isolated: the step that records a Failed
\* outcome raises the failure counter by exactly one, leaves the success
\* counter alone and returns to the loop at the next entry; and a run that
\* reaches the summary has an outcome for every entry of the plan.
C12_FailureIsolated ==
    /\ [][(/\ Len(outcomes') = Len(outcomes) + 1
           /\ outcomes'[Len(outcomes')].tag = "Failed")
          => /\ errorCount' = errorCount + 1
             /\ successCount' = successCount
             /\ idx' = idx + 1
             /\ pc' = "loop"
             /\ exitCode' = "running"]_vars
    /\ [](pc = "exited" /\ fsOps # {} /\ entryPoint = "cli"
            => Len(outcomes) = Len(repositoriesToClone))

\* C12 witness: the run has ended with one failure counted, for the first
\* entry, and a success for the entry after it
C12_Witness ==
    /\ pc = "exited"
    /\ run = 1
    /\ Len(outcomes) = 2
    /\ outcomes[1].tag = "Failed"
    /\ outcomes[2].tag = "Succeeded"
    /\ errorCount = 1
    /\ successCount = 1

\* what scrape can return when it found something: one address for each of
\* up to three distinct identifiers, in the order they were first seen
ScrapeResults ==
    LET Hrefs == {Trim(h) : h \in RawHrefs} \ {<<>>}
    IN  UNION { {us \in [1..n -> Addresses] :
                    \E hs \in [1..n -> Hrefs] :
                        /\ \A i, j \in 1..n : i # j => hs[i] # hs[j]
                        /\ \A i \in 1..n : us[i] \in RepositoriesOf(hs[i])}
                : n \in 1..Min2(Cardinality(Hrefs), MaxHits) }

\* main at line 144 of a run that is not a dry run: scrape has returned, the
\* plan is made and the destination root is there (the states MainMkdir
\* leads to)
RetrievalInit ==
    /\ argv \in {a \in ArgvValues : ~a.dryRun}
    /\ results \in ScrapeResults
    /\ repositoriesToClone = Plan(results, argv.maxResults)
    /\ \E rootExists \in BOOLEAN, d \in InitialDirs :
         /\ ~rootExists => d = {}
         /\ dirs = d
         /\ fsOps = {"existsSync root"}
                    \cup (IF rootExists THEN {} ELSE {"mkdirSync root"})
    /\ pc = "loop"
    /\ browser = "closed"
    /\ exitCode = "running"
    /\ entryPoint = "cli"
    /\ fatalError = ""
    /\ vaultFault = ""
    /\ vault = NoVault
    /\ consoleLog = {}
    /\ config = NoConfig
    /\ pageKind = "blank"
    /\ loginStep = 0
    /\ authFailed = FALSE
    /\ scrapeError = ""
    /\ searchTriggered = FALSE
    /\ searchSaw = NoSuggestions
    /\ resolveLog = NoResolution
    /\ authLog = <<>>
    /\ currentPage = 0
    /\ hits = <<>>
    /\ seen = <<>>
    /\ extractions = 0
    /\ nextClicks = 0
    /\ nexts = <<>>
    /\ loopDone = FALSE
    /\ searchResultSet = <<>>
    /\ urls = <<>>
    /\ shown = <<>>
    /\ idx = 0
    /\ successCount = 0
    /\ errorCount = 0
    /\ outcomes = <<>>
    /\ execs = <<>>
    /\ branchError = NoError
    /\ run = 1
    /\ firstRun = NoFirstRun
    /\ inFlight = {}
    /\ dryRunReport = <<>>

\* a step of main from line 144 to the summary; the position pc enables at
\* most one of them
RetrievalStep ==
    \/ MainLoopEntry
    \/ CloneBranch
    \/ CloneFallback
    \/ CloneDefault
    \/ MainSummary

RetrievalNext == RetrievalStep \/ RunAgain

\* the positions at which a step of RetrievalStep is possible
RetrievalEnabled == pc \in {"loop", "clone_branch", "clone_fallback", "clone_default"}

\* every fetch returns and the single thread of control of main goes on:
\* WF_vars(RetrievalStep), written out with RetrievalEnabled for
\* ENABLED <<RetrievalStep>>_vars
RetrievalFairness == []<>(~RetrievalEnabled) \/ []<><<RetrievalStep>>_vars

\* the Retrieval Orchestrator alone, under that fairness
RetrievalSpec == RetrievalInit /\ [][RetrievalNext]_vars /\ RetrievalFairness

C14_DryRunFrame ==
    argv.dryRun =>
        /\ pc \in {"planned", "exited"}
        /\ fsOps = {}
        /\ execs = <<>>
        /\ inFlight = {}
        /\ outcomes = <<>>
        /\ successCount = 0
        /\ errorCount = 0
        /\ pc = "exited" =>
              /\ exitCode = 0
              /\ Len(dryRunReport) = Len(repositoriesToClone)
              /\ \A i \in 1..Len(repositoriesToClone) :
                    /\ dryRunReport[i].address = repositoriesToClone[i]
                    /\ dryRunReport[i].branch = argv.branch

\* C14 witness: a dry run with cap 2 on three discovered addresses has ended
C14_Witness ==
    /\ argv.dryRun
    /\ pc = "exited"
    /\ Len(results) = 3
    /\ argv.maxResults = [given |-> TRUE, n |-> 2]
    /\ Len(dryRunReport) = 2

\* C15: an entry whose destination directory exists when it is processed is
\* recorded as Skipped by a step that starts no fetch and changes neither the
\* directories nor the counters; and a fetch is only ever in progress for an
\* entry whose destination directory does not exist.
C15_ExistingDestinationSkipped ==
    /\ [][(/\ pc = "loop"
           /\ idx < Len(repositoriesToClone)
           /\ ShortName(repositoriesToClone[idx + 1]) \in dirs)
          => /\ outcomes' = Append(outcomes, Skipped(ShortName(repositoriesToClone[idx + 1])))
             /\ execs' = execs
             /\ inFlight' = {}
             /\ dirs' = dirs
             /\ successCount' = successCount
             /\ errorCount' = errorCount
             /\ idx' = idx + 1]_vars
    /\ [](pc \in {"clone_branch", "clone_fallback", "clone_default"}
            => ShortName(repositoriesToClone[idx + 1]) \notin dirs)

\* C15 witness: in the first run the first entry was Skipped without a
\* fetch, its directory being there, and the entry after it was fetched
C15_Witness ==
    /\ run = 1
    /\ Len(outcomes) = 2
    /\ outcomes[1].tag = "Skipped"
    /\ FetchesOf(1) = <<>>
    /\ outcomes[1].name \in dirs
    /\ outcomes[2].tag = "Succeeded"
    /\ successCount = 1

\* C16 (as claimed): never two fetches in progress, and an entry is only
\* taken up when no fetch is in progress.
C16_SequentialAsClaimed ==
    /\ Cardinality(inFlight) <= 1
    /\ (pc = "loop" /\ idx < Len(repositoriesToClone)) => inFlight = {}
    /\ (pc = "index_loop" /\ idx < Len(results)) => inFlight = {}

\* a field value that holds secret material: not empty or blank, not a vault
\* path left unresolved, not a provisioning URI without secret
IsSecretValue(x) ==
    /\ Trim(x) # <<>>
    /\ "op://" \notin SeqToSet(x)
    /\ x # OtpauthNoSecret

\* the secret values the vault holds for the Credential Bundle
VaultSecrets ==
    {x \in {vault.v.username, vault.v.password, vault.v.otp, vault.v.atlassian} :
        IsSecretValue(x)}

\* C17 (as claimed): nothing the vault holds for the Credential Bundle is
\* written to the console.
C17_NoSecretLoggedAsClaimed == vault.read => consoleLog \cap VaultSecrets = {}

\* C18 (as claimed): no code is returned for a seed that contains the
\* vault-path marker anywhere.
C18_NoCodeForVaultMarkerAsClaimed ==
    (vault.read /\ pc = "launch") =>
        /\ "op://" \notin SeqToSet(vault.v.otp)
        /\ "op://" \notin SeqToSet(vault.v.atlassian)

\* C18 (amended): no code is returned when the secret string (the raw seed,
\* or the secret parameter of a provisioning URI) contains the vault-path
\* marker: getBitbucketAuth fails with the one-time-code derivation error.
C18_NoCodeForVaultPathSecret ==
    (/\ vault.read /\ vault.v.prefix /\ vault.v.readFails = ""
     /\ \/ "op://" \in SeqToSet(SecretString(vault.v.otp))
        \/ "op://" \in SeqToSet(SecretString(vault.v.atlassian)))
    => /\ pc \in {"fatal", "exited"}
       /\ fatalError = "totp"
       /\ config = NoConfig

\* C18 witness: the run ended on the derivation error, the second seed
\* being a provisioning URI whose secret parameter is a vault path
C18_Witness ==
    /\ pc = "exited"
    /\ vault.v.otp = RawSecretUpper
    /\ vault.v.atlassian = OtpauthVaultPath
    /\ fatalError = "totp"

\* the provisioning URIs that embed the secret S
EmbedInUri(S) ==
    { <<"otpauth://", "totp/acct", "?secret=">> \o S,
      <<"otpauth://", "totp/acct", "?secret=">> \o S \o <<"&", "issuer=x">> }

\* a value that form decoding leaves as it is (every base32 secret is one)
FormSafe(S) == "+" \notin SeqToSet(S)

\* C19: a provisioning URI that embeds the secret S gives what the raw S
\* gives at the same time step: both calls fail or both return the same
\* code; and two seeds with the same cleaned secret give the same code at
\* the same step.
C19_UriSameAsRaw ==
    (vault.read /\ vault.v.prefix /\ vault.v.readFails = "") =>
        LET a == vault.v.otp
            b == vault.v.atlassian
        IN  /\ ((FormSafe(a) /\ b \in EmbedInUri(a)) \/ (FormSafe(b) /\ a \in EmbedInUri(b))) =>
                  /\ consoleLog \subseteq {a}
                  /\ (pc = "launch" /\ vault.t1 = vault.t2)
                        => config.bitbucketOtp = config.atlassianOtp
            /\ (/\ pc = "launch"
                /\ vault.t1 = vault.t2
                /\ RemoveWhitespace(a) \in {<<"j", "B">>, <<"J", "B">>}
                /\ RemoveWhitespace(b) \in {<<"j", "B">>, <<"J", "B">>})
               => config.bitbucketOtp = config.atlassianOtp

\* C19 witness: codes were derived from a raw secret and from the URI that
\* embeds it, at the same time step
C19_Witness ==
    /\ pc = "launch"
    /\ vault.v.otp = RawSecretUpper
    /\ vault.v.atlassian = OtpauthUri
    /\ vault.t1 = vault.t2
    /\ config.bitbucketOtp = config.atlassianOtp
    /\ config.bitbucketOtp # NoCode

\* C20 (as claimed): an empty identity, secret or seed makes getBitbucketAuth
\* fail with the required-field error.
C20_RequiredFieldErrorAsClaimed ==
    (/\ vault.read /\ vault.v.prefix /\ vault.v.readFails = ""
     /\ <<>> \in {vault.v.username, vault.v.password, vault.v.otp, vault.v.atlassian})
    => fatalError = "required"

\* C20 (amended): getBitbucketAuth never returns a Credential Bundle with an
\* empty field; an empty identity or secret gives the required-field error
\* when both seeds derive a code, and an empty seed gives the one-time-code
\* derivation error.
C20_RequiredFieldError ==
    /\ config.loaded =>
          /\ config.username # <<>>
          /\ config.password # <<>>
          /\ config.bitbucketOtp # NoCode
          /\ config.atlassianOtp # NoCode
    /\ (vault.read /\ vault.v.prefix /\ vault.v.readFails = "") =>
          /\ (/\ <<>> \in {vault.v.username, vault.v.password}
              /\ vault.v.otp \in DerivableSecrets
              /\ vault.v.atlassian \in DerivableSecrets)
             => (pc \in {"fatal", "exited"} /\ fatalError = "required")
          /\ <<>> \in {vault.v.otp, vault.v.atlassian}
             => (pc \in {"fatal", "exited"} /\ fatalError = "totp")

\* C20 witness: the run ended on the derivation error, the second seed being
\* empty and every other field being there
C20_Witness ==
    /\ pc = "exited"
    /\ vault.v.username # <<>>
    /\ vault.v.password # <<>>
    /\ vault.v.otp = RawSecretUpper
    /\ vault.v.atlassian = <<>>
    /\ fatalError = "totp"

(***************************************************************************)
(* The search trigger (searchForCodeInBitbucket, scrape 256-266).          *)
(***************************************************************************)
\* no suggestion of the dropdown could be activated
NothingToActivate == searchSaw.link \in {"absent", "hidden"} /\ ~searchSaw.option

\* C21 (as claimed): when neither a "search code" link nor an "option"
\* element can be activated, the collector returns an empty list without an
\* error: no header group is extracted and no address is resolved.
C21_NoTriggerNoExtractionAsClaimed ==
    NothingToActivate =>
        /\ extractions = 0
        /\ hits = <<>>
        /\ searchResultSet = <<>>
        /\ urls = <<>>
        /\ scrapeError = ""

\* C22 (as claimed): when no "Search for code in" link is found the first
\* option is activated if one is present, and the option is activated only
\* when the link is not found.
C22_FallbackWhenLinkNotFoundAsClaimed ==
    /\ (searchSaw.link = "absent" /\ searchSaw.option) => searchTriggered
    /\ (searchSaw.link = "hidden" /\ searchSaw.option) => ~searchTriggered

(***************************************************************************)
(* The Session Authenticator's state machine.                              *)
(***************************************************************************)
IdentityProviderHost == "id.atlassian.com"

\* the inspections of the address, and the entries of fields, on record
UrlEntries == SelectSeq(authLog, LAMBDA e : e.op = "url")
Entered == SelectSeq(authLog, LAMBDA e : e.op \in {"fill", "click", "locate"})

\* position on record of the statement op on the control target, 0 if none
PosOf(op, target) ==
    LET S == {i \in 1..Len(authLog) : authLog[i].op = op /\ authLog[i].target = target}
    IN  IF S = {} THEN 0 ELSE CHOOSE i \in S : \A j \in S : i <= j

\* where the run is once a statement inside scrape's try has thrown
AfterThrow == {"catch", "scraped", "exited"}

C24_LoginOrder ==
    LET identity == PosOf("fill", "#username-uid1")
        continue == PosOf("click", "Continue")
        secret == PosOf("fill", "Password")
        logIn == PosOf("click", "Log In")
    IN  /\ logIn > 0 => (secret > 0 /\ secret < logIn)
        /\ secret > 0 => (continue > 0 /\ continue < secret)
        /\ continue > 0 => (identity > 0 /\ identity < continue)
        /\ (identity > 0 /\ config.loaded) => authLog[identity].text = config.username
        /\ (secret > 0 /\ config.loaded) => authLog[secret].text = config.password
        /\ (scrapeError = "control not found" /\ loginStep = 2) =>
              /\ pc \in AfterThrow
              /\ Entered = <<>>

\* C24 witness: Log In was activated and the address left the identity
\* provider
C24_Witness ==
    /\ pc = "goto"
    /\ PosOf("click", "Log In") > 0
    /\ pageKind = "home"

C26_ChallengeOrderThenAuthenticated ==
    LET own == PosOf("fill", "6-digit verification code")
        token == PosOf("fill", "token")
        verify == PosOf("click", "Verify")
    IN  /\ verify > 0 => (own > 0 /\ own < verify /\ token > 0 /\ token < verify)
        /\ (own > 0 /\ config.loaded) => authLog[own].code = config.atlassianOtp
        /\ (token > 0 /\ config.loaded) => authLog[token].code = config.bitbucketOtp
        /\ (verify > 0 /\ Len(authLog) > verify) =>
              /\ pc = "goto"
              /\ loginStep = 0
              /\ pageKind \in {"home", "idp_code_rejected"}

\* C26 witness: Verify was activated with two different codes entered, the
\* address is still on the identity provider and authentication has ended
C26_Witness ==
    /\ pc = "goto"
    /\ PosOf("click", "Verify") > 0
    /\ pageKind = "idp_code_rejected"
    /\ config.bitbucketOtp # config.atlassianOtp

(***************************************************************************)
(* Retries, settle waits and address resolution.                           *)
(***************************************************************************)
\* C27: nothing is retried but the branch-restricted fetch: an entry has at
\* most two fetches when a branch is requested, the second unrestricted and
\* issued only after the first failed, at most one otherwise and none when
\* it is skipped; the statements of the authentication that completed are
\* the first statements of handleAtlassianLogin, each once, the address is
\* inspected at most twice (once per function), and getGitCloneUrl is
\* called at most once for an identifier.
C27_NoRetryButBranchFallback ==
    /\ \A i \in 1..Len(results) :
          LET fs == FetchesOf(i)
          IN  /\ Len(fs) <= (IF argv.branch # "" THEN 2 ELSE 1)
              /\ Len(fs) = 2 =>
                    /\ fs[1].cmd = "git clone -b"
                    /\ fs[1].stderr # ""
                    /\ fs[2].cmd = "git clone"
              /\ (entryPoint = "cli" /\ i <= Len(outcomes) /\ outcomes[i].tag = "Skipped")
                    => fs = <<>>
    /\ NoDup(Entered)
    /\ Len(UrlEntries) <= 2
    /\ LET done == SelectSeq(authLog, LAMBDA e : e.op # "url")
       IN  /\ Len(done) <= Len(LoginSteps)
           /\ \A k \in 1..Len(done) :
                 done[k].op = LoginSteps[k].op /\ done[k].target = LoginSteps[k].target
    /\ NoDup(resolveLog.called)
    /\ Len(resolveLog.called) <= Len(searchResultSet)

\* C27 witness: a run ended in which one entry took two fetches and another
\* was skipped
C27_Witness ==
    /\ pc = "exited"
    /\ argv.branch # ""
    /\ \E i, j \in 1..Len(outcomes) :
          /\ Len(FetchesOf(i)) = 2
          /\ outcomes[j].tag = "Skipped"

\* C28 (as claimed): a network-settle wait that expires never fails the run.
C28_SettleExpiryNeverFailsAsClaimed == scrapeError # "settle timeout"

C30_OneResolutionPerIdentifier ==
    (pc = "scraped" /\ scrapeError = "") =>
        /\ resolveLog.called = FirstSeen(seen)
        /\ NoDup(resolveLog.called)
        /\ Len(results) = Len(FirstSeen(seen))
        /\ \A i \in 1..Len(results) :
              /\ results[i] = shown[i]
              /\ results[i] \in RepositoriesOf(resolveLog.called[i])

\* C30 witness: scrape returned two addresses for two identifiers seen four
\* times in all
C30_Witness ==
    /\ pc = "scraped"
    /\ scrapeError = ""
    /\ Len(seen) = MaxHits
    /\ Len(results) = 2

(***************************************************************************)
(* The order of the stages.                                                *)
(***************************************************************************)
\* the stage a position of the control belongs to, in pipeline order
Stage(p) ==
    IF p = "scrape" THEN 1
    ELSE IF p \in {"launch", "newPage"} THEN 2
    ELSE IF p \in {"auth", "login"} THEN 3
    ELSE IF p \in {"goto", "search"} THEN 4
    ELSE IF p \in {"noresults", "rows", "next", "dedup"} THEN 5
    ELSE IF p = "resolve" THEN 6
    ELSE IF p = "catch" THEN 7
    ELSE IF p = "scraped" THEN 8
    ELSE IF p = "planned" THEN 9
    ELSE IF p \in {"loop", "clone_branch", "clone_fallback", "clone_default", "index_loop"}
    THEN 10
    ELSE 11

\* a filesystem or fetch operation of the retrieval has taken place
RetrievalBegun == fsOps # {} \/ execs # <<>> \/ inFlight # {} \/ outcomes # <<>>

\* C31: the stages run in a fixed forward order: the control never moves to
\* an earlier stage (a second run of the retrieval starts at the retrieval);
\* the Session is open only with the Credential Bundle loaded, the search
\* only after authentication has ended, pagination and address resolution
\* only after the search; retrieval begins only after scrape has returned
\* its addresses and released the Session, and a released Session is not
\* used again.
C31_StagesForward ==
    /\ [][/\ (Stage(pc') >= Stage(pc) \/ (pc = "exited" /\ pc' = "loop" /\ run' = 2))
          /\ browser = "closed" => browser' = "closed"]_vars
    /\ [](/\ browser = "open" => config.loaded
          /\ Stage(pc) \in 4..6 => (browser = "open" /\ loginStep = 0)
          /\ Stage(pc) \in 5..6 => searchSaw.link # ""
          /\ resolveLog.called # <<>> => (searchSaw.link # "" /\ Stage(pc) >= 6)
          /\ RetrievalBegun =>
                /\ browser = "closed"
                /\ Stage(pc) >= 10
                /\ results # <<>>
                /\ ~config.loaded)

\* C31 witness: a fetch has been issued, the Session released
C31_Witness ==
    /\ pc = "loop"
    /\ execs # <<>>
    /\ browser = "closed"
    /\ run = 1

(***************************************************************************)
(* Short names and destination directories.                                *)
(***************************************************************************)
\* a final path segment with its last dot-separated suffix removed, the
\* segment itself when it has no dot
WithoutLastSuffix(segment) ==
    LET dots == {i \in 1..Len(segment) : segment[i] = "."}
    IN  IF dots = {} THEN segment
        ELSE SubSeq(segment, 1, (CHOOSE i \in dots : \A j \in dots : j <= i) - 1)

\* C32 (as claimed): the short name of an entry is the final path segment
\* of its address with only the trailing suffix removed ("my.repo.git"
\* gives "my.repo").
C32_ShortNameKeepsInnerDotsAsClaimed ==
    entryPoint = "cli" =>
        \A i \in 1..Len(outcomes) :
            outcomes[i].name = WithoutLastSuffix(LastSegment(repositoriesToClone[i]))

(***************************************************************************)
(* The pagination loop has no bound of its own.                            *)
(***************************************************************************)
\* C33: the loop goes on to the next page exactly when Next is visible and
\* not disabled; it is left for address resolution only on a Next that is
\* disabled or hidden, so as long as every Next inspected is enabled the
\* loop is not over and nothing is resolved or retrieved.
C33_LoopLeftOnlyOnNextNotEnabled ==
    /\ [][pc = "next" =>
            /\ pc' \in {"rows", "dedup", "catch"}
            /\ pc' = "rows" =>
                  /\ nexts' = Append(nexts, "enabled")
                  /\ currentPage' = currentPage + 1
                  /\ nextClicks' = nextClicks + 1
            /\ pc' = "dedup" =>
                  \E n \in {"disabled", "hidden"} : nexts' = Append(nexts, n)
            /\ pc' = "catch" => nexts' = nexts]_vars
    /\ [](/\ pc \in {"rows", "next"} =>
                /\ \A k \in 1..Len(nexts) : nexts[k] = "enabled"
                /\ ~loopDone
                /\ resolveLog.called = <<>>
                /\ ~RetrievalBegun
          /\ (pc = "dedup" /\ extractions > 0) =>
                /\ loopDone
                /\ nexts[Len(nexts)] \in {"disabled", "hidden"})

\* C33 witness: the loop went on after an enabled Next and ended on a hidden
\* one
C33_Witness ==
    /\ pc = "dedup"
    /\ nexts = <<"enabled", "hidden">>
    /\ extractions = 2

(***************************************************************************)
(* The run-level counters.                                                 *)
(***************************************************************************)
\* the entries of this run recorded with the outcome tag
Tagged(tag) == {i \in 1..Len(outcomes) : outcomes[i].tag = tag}

\* the completion summary of part_000 162-178 has been reached
AtSummary ==
    /\ pc = "exited"
    /\ exitCode = 0
    /\ entryPoint = "cli"
    /\ ~argv.dryRun
    /\ repositoriesToClone # <<>>

\* C34: at the completion summary every plan entry has exactly one outcome
\* and successCount + errorCount + the number of Skipped entries is the
\* number of plan entries; during the loop successCount + errorCount is at
\* most the number of entries processed, each counter being the number of
\* entries with its outcome.
C34_CountersAccountForEveryEntry ==
    /\ AtSummary =>
          /\ Len(outcomes) = Len(repositoriesToClone)
          /\ successCount + errorCount + Cardinality(Tagged("Skipped"))
                = Len(repositoriesToClone)
    /\ (entryPoint = "cli" /\ Stage(pc) >= 10) =>
          /\ successCount + errorCount <= idx
          /\ idx <= Len(repositoriesToClone)
          /\ successCount = Cardinality(Tagged("Succeeded"))
          /\ errorCount = Cardinality(Tagged("Failed"))

\* C34 witness: the summary of a run with a retrieved, a failed and a
\* skipped entry
C34_Witness ==
    /\ AtSummary
    /\ successCount = 1
    /\ errorCount = 1
    /\ Cardinality(Tagged("Skipped")) = 1

(***************************************************************************)
(* Addresses that share a destination, or repeat.                          *)
(***************************************************************************)
\* C35 (as claimed): in a first run that had to create the destination
\* root, an entry is Skipped only when an earlier entry of the run with the
\* same address was retrieved: never because an entry for a different
\* repository created a directory with the same short name.
C35_NoSkipByOtherRepositoryAsClaimed ==
    (entryPoint = "cli" /\ run = 1 /\ "mkdirSync root" \in fsOps) =>
        \A j \in Tagged("Skipped") :
            \E i \in 1..(j - 1) :
                /\ repositoriesToClone[i] = repositoriesToClone[j]
                /\ outcomes[i].tag = "Succeeded"

\* C36 (as claimed): the list scrape returns holds no address twice.
C36_NoDuplicateAddressAsClaimed == pc = "scraped" => NoDup(results)

\* C37 (as claimed): the name the dry run reports for an entry is the short
\* name a real run uses as its destination directory.
C37_DryRunNameIsShortNameAsClaimed ==
    \A i \in 1..Len(dryRunReport) :
        dryRunReport[i].name = ShortName(dryRunReport[i].address)

====
